---- MODULE Spec2Model ----
(***************************************************************************)
(* Model of sysfs-monitor-tui: the Monitor state, its refresh cycle        *)
(* (Update / updateSensors / tick), the sensor abstraction (GenericSensor  *)
(* and the record adapters) and the size-aware renderer (View /            *)
(* compactView).  The repository holds two versions of the monitor: the    *)
(* two-column one with the multi-temperature compact line                  *)
(* (src/unnamed/part_002) and the single-column one whose compact line     *)
(* shows one temperature (src/internal/monitor/monitor.go).  The variable  *)
(* `variant` says which of the two is built; everything else is shared.    *)
(*                                                                         *)
(* Text is a sequence of segments.  A segment is one piece written by one  *)
(* WriteString / Fprintf verb: t is the literal or the verb, n its numeric *)
(* argument, s its string argument and c the lipgloss style applied to it. *)
(* "\n" is a segment of its own, so that lines are found by splitting.     *)
(* Floats are modelled by integers (whole degrees, volts, ...).            *)
(*                                                                         *)
(* Besides the event loop (Spec) and the renderer on every monitor state   *)
(* (SpecView) there is a specification of single calls (SpecCalls): one   *)
(* operation is called on inputs drawn from bounded sets, `theSensor` and  *)
(* `sysfs` are the sensor and the file system it is called on, and `ret`   *)
(* records the call: its arguments, the state before it and what it        *)
(* returned.                                                               *)
(***************************************************************************)
EXTENDS Integers, Sequences, FiniteSets, TLC

VARIABLES variant, phase, mon, now, timers, screen,
          srcTemps, srcBattery, prevCount, refreshed,
          theSensor, sysfs, ret

vars == <<variant, phase, mon, now, timers, screen,
          srcTemps, srcBattery, prevCount, refreshed,
          theSensor, sysfs, ret>>

(***************************************************************************)
(* Bounds of the model.                                                    *)
(***************************************************************************)
MaxTemps == 2
MaxGroups == 2
MaxSensors == 2
MaxClock == 4

(***************************************************************************)
(* Program constants.                                                      *)
(***************************************************************************)
compactHeightThreshold == 10
maxLines == 3
TickInterval == 2

Green == "42"
Red == "9"
Orange == "214"

Variants == {"two_column", "single_column"}

(***************************************************************************)
(* Records.                                                                *)
(***************************************************************************)
TemperatureSensor(name, value, high, critical, path) ==
  [Name |-> name, Value |-> value, High |-> high, Critical |-> critical,
   Path |-> path]

\* The zero value of the struct: `var highest TemperatureSensor`.
ZeroTemperatureSensor == TemperatureSensor("", 0, 0, 0, "")

BatteryStatus(capacity, status, voltage, current, power, health, temp, energy, level) ==
  [Capacity |-> capacity, Status |-> status, Voltage |-> voltage,
   Current |-> current, Power |-> power, Health |-> health,
   Temperature |-> temp, Energy |-> energy, CapacityLevel |-> level]

\* BatteryStatus{}: the record ReadBatteryStatus returns when no battery exists.
ZeroBatteryStatus == BatteryStatus(0, "", 0, 0, 0, "", 0, 0, "")

(***************************************************************************)
(* Sensors.  kind is the dynamic type behind the Sensor interface; a       *)
(* generic sensor keeps its cached triple, an adapter keeps the record it  *)
(* wraps.  hasFn is refreshFn != nil.                                      *)
(***************************************************************************)
GenericSensorOf(name, value, warning, critical, hasFn) ==
  [kind |-> "generic", name |-> name, value |-> value, warning |-> warning,
   critical |-> critical, hasFn |-> hasFn,
   temp |-> ZeroTemperatureSensor, bat |-> ZeroBatteryStatus]

NewGenericSensor(name, hasFn) == GenericSensorOf(name, "", FALSE, FALSE, hasFn)

TemperatureSensorAdapter(t) ==
  [kind |-> "temperature", name |-> t.Name, value |-> "", warning |-> FALSE,
   critical |-> FALSE, hasFn |-> FALSE, temp |-> t, bat |-> ZeroBatteryStatus]

BatterySensorAdapter(b) ==
  [kind |-> "battery", name |-> "Battery", value |-> "", warning |-> FALSE,
   critical |-> FALSE, hasFn |-> FALSE, temp |-> ZeroTemperatureSensor, bat |-> b]

SensorGroup(name, sensors) == [Name |-> name, Sensors |-> sensors]

Name(sensor) ==
  IF sensor.kind = "battery" THEN "Battery" ELSE sensor.name

Warning(sensor) ==
  CASE sensor.kind = "temperature" -> sensor.temp.Value >= sensor.temp.High
    [] sensor.kind = "battery" -> sensor.bat.Capacity < 20
    [] OTHER -> sensor.warning

Critical(sensor) ==
  CASE sensor.kind = "temperature" -> sensor.temp.Value >= sensor.temp.Critical
    [] sensor.kind = "battery" -> sensor.bat.Capacity < 10
    [] OTHER -> sensor.critical

\* Value(): the number an adapter formats (n) or the cached string (s).
Value(sensor) ==
  CASE sensor.kind = "temperature" -> [t |-> "%.1f C", n |-> sensor.temp.Value, s |-> ""]
    [] sensor.kind = "battery" -> [t |-> "%d%%", n |-> sensor.bat.Capacity, s |-> ""]
    [] OTHER -> [t |-> "%s", n |-> 0, s |-> sensor.value]

\* What a refresh callback hands back: (value, warning, critical, err).
RefreshResult(value, warning, critical, err) ==
  [value |-> value, warning |-> warning, critical |-> critical, err |-> err]

\* Refresh that stores the callback's triple before it looks at the error.
Refresh_storeBeforeCheck(sensor, r) ==
  IF sensor.kind = "generic" /\ sensor.hasFn
  THEN [sensor |-> [sensor EXCEPT !.value = r.value, !.warning = r.warning,
                                  !.critical = r.critical],
        err |-> r.err]
  ELSE [sensor |-> sensor, err |-> FALSE]

\* Refresh(): the sensor after the call and the error it returns.
Refresh(sensor, r) ==
  IF sensor.kind = "generic" /\ sensor.hasFn
  THEN IF r.err
       THEN [sensor |-> sensor, err |-> TRUE]
       ELSE [sensor |-> [sensor EXCEPT !.value = r.value, !.warning = r.warning,
                                       !.critical = r.critical],
             err |-> FALSE]
  ELSE [sensor |-> sensor, err |-> FALSE]

CreateSensorGroups(temps, battery) ==
  (IF Len(temps) > 0
   THEN <<SensorGroup("Temperatures",
                      [i \in 1..Len(temps) |-> TemperatureSensorAdapter(temps[i])])>>
   ELSE <<>>)
  \o
  (IF battery.Capacity > 0 \/ battery.Status # ""
   THEN <<SensorGroup("Battery", <<BatterySensorAdapter(battery)>>)>>
   ELSE <<>>)

(***************************************************************************)
(* Text.                                                                   *)
(***************************************************************************)
Seg(t, n, s, c) == [t |-> t, n |-> n, s |-> s, c |-> c]
Lit(t) == Seg(t, 0, "", "")
NL == Lit("\n")

\* lipgloss Style.Render of one formatted piece.
Render(style, t, n, s) == Seg(t, n, s, style)

\* time.Format("15:04:05") of a time given in seconds: HHMMSS as one number.
Format(t) == ((t \div 3600) % 24) * 10000 + ((t \div 60) % 60) * 100 + (t % 60)

RECURSIVE Join(_, _)
\* strings.Join(lines, sep)
Join(lines, sep) ==
  IF Len(lines) = 0 THEN <<>>
  ELSE IF Len(lines) = 1 THEN lines[1]
  ELSE lines[1] \o <<sep>> \o Join(Tail(lines), sep)

RECURSIVE Split(_)
\* strings.Split(text, "\n"): always at least one line.
Split(text) ==
  IF \A i \in 1..Len(text) : text[i] # NL
  THEN <<text>>
  ELSE LET k == CHOOSE i \in 1..Len(text) :
                  text[i] = NL /\ \A j \in 1..(i - 1) : text[j] # NL
       IN <<SubSeq(text, 1, k - 1)>> \o Split(SubSeq(text, k + 1, Len(text)))

RECURSIVE Flatten(_)
Flatten(seqs) ==
  IF Len(seqs) = 0 THEN <<>> ELSE seqs[1] \o Flatten(Tail(seqs))

(***************************************************************************)
(* Colours, one definition per place the source computes one.              *)
(***************************************************************************)
\* viewTemperatureColor with strict comparisons.
viewTemperatureColor_strict(sensor) ==
  IF sensor.Value > sensor.Critical THEN Red
  ELSE IF sensor.Value > sensor.High THEN Orange
  ELSE Green

\* View: the colour of one temperature line.
viewTemperatureColor(sensor) ==
  IF sensor.Value >= sensor.Critical THEN Red
  ELSE IF sensor.Value >= sensor.High THEN Orange
  ELSE Green

\* compactView (two-column version): the colour of one temperature reading.
compactTemperatureColor(sensor) ==
  IF sensor.Value >= sensor.Critical THEN Red
  ELSE IF sensor.Value >= sensor.High THEN Orange
  ELSE Green

\* View: the colour of the capacity.
viewCapacityColor(bat) ==
  IF bat.Capacity < 20 THEN Red
  ELSE IF bat.Capacity < 50 THEN Orange
  ELSE Green

\* compactView: the colour of the capacity.
compactCapacityColor(bat) ==
  IF bat.Capacity < 20 THEN Red
  ELSE IF bat.Capacity < 50 THEN Orange
  ELSE Green

\* View and compactView: the colour of one extra sensor.
sensorColor(sensor) ==
  IF Critical(sensor) THEN Red
  ELSE IF Warning(sensor) THEN Orange
  ELSE Green

(***************************************************************************)
(* The compact renderer.                                                   *)
(***************************************************************************)
\* The temperature part of the first line, two-column version: every reading.
compactTemperatures(temps) ==
  IF Len(temps) > 0
  THEN <<Lit("ICON_TEMP ")>> \o
       Flatten([i \in 1..Len(temps) |->
                 (IF i > 1 THEN <<Lit("   ")>> ELSE <<>>) \o
                 <<Render(compactTemperatureColor(temps[i]), "%.1f C",
                          temps[i].Value, "")>>])
  ELSE <<>>

RECURSIVE highestFrom(_, _)
\* The loop `if sensor.Value > highest.Value { highest = sensor }`.
highestFrom(highest, temps) ==
  IF Len(temps) = 0 THEN highest
  ELSE highestFrom(IF temps[1].Value > highest.Value THEN temps[1] ELSE highest,
                   Tail(temps))

\* The temperature part of the first line, single-column version: one reading.
compactTemperaturesSingle(temps) ==
  IF Len(temps) > 0
  THEN LET highest == highestFrom(ZeroTemperatureSensor, temps)
           color == IF highest.Value >= highest.Critical THEN Red
                    ELSE IF highest.Value >= highest.High THEN Orange
                    ELSE Green
       IN <<Lit("ICON_TEMP "), Render(color, "%.1f C", highest.Value, "")>> \o
          (IF Len(temps) > 1 THEN <<Seg(" (%d)", Len(temps), "", "")>> ELSE <<>>)
  ELSE <<>>

\* compactBattery that takes a battery with capacity 0 for absent.
compactBattery_capacityOnly(firstLine, bat) ==
  IF bat.Capacity > 0
  THEN (IF Len(firstLine) > 0 THEN <<Lit(" | ")>> ELSE <<>>) \o
       <<Lit("ICON_BAT "),
         Render(compactCapacityColor(bat), "%d%%", bat.Capacity, ""),
         Lit(" "), Seg("%s", 0, bat.Status, "")>> \o
       (IF bat.Voltage > 0 THEN <<Seg(" %.2fV", bat.Voltage, "", "")>> ELSE <<>>)
  ELSE <<>>

\* The battery part of the first line; firstLine is what was written before it.
compactBattery(firstLine, bat) ==
  IF bat.Capacity > 0 \/ bat.Status # ""
  THEN (IF Len(firstLine) > 0 THEN <<Lit(" | ")>> ELSE <<>>) \o
       <<Lit("ICON_BAT "),
         Render(compactCapacityColor(bat), "%d%%", bat.Capacity, ""),
         Lit(" "), Seg("%s", 0, bat.Status, "")>> \o
       (IF bat.Voltage > 0 THEN <<Seg(" %.2fV", bat.Voltage, "", "")>> ELSE <<>>)
  ELSE <<>>

RECURSIVE SumLen(_)
\* totalSensors
SumLen(groups) ==
  IF Len(groups) = 0 THEN 0
  ELSE Len(groups[1].Sensors) + SumLen(Tail(groups))

RECURSIVE criticalCount(_)
\* criticalCount: sensors with Critical().
criticalCount(groups) ==
  IF Len(groups) = 0 THEN 0
  ELSE Cardinality({i \in 1..Len(groups[1].Sensors) :
                      Critical(groups[1].Sensors[i])})
       + criticalCount(Tail(groups))

RECURSIVE warningCount(_)
\* warningCount: sensors with Warning() and not Critical().
warningCount(groups) ==
  IF Len(groups) = 0 THEN 0
  ELSE Cardinality({i \in 1..Len(groups[1].Sensors) :
                      /\ ~Critical(groups[1].Sensors[i])
                      /\ Warning(groups[1].Sensors[i])})
       + warningCount(Tail(groups))

\* The "Extra:" line of the two-column version.
compactExtra(groups) ==
  IF Len(groups) > 0
  THEN LET w == warningCount(groups)
           c == criticalCount(groups)
           color == IF c > 0 THEN Red ELSE IF w > 0 THEN Orange ELSE Green
       IN <<<<Render(color, "Extra: %d groups", Len(groups), ""),
              Render(color, ", %d sensors", SumLen(groups), "")>> \o
            (IF w > 0 \/ c > 0
             THEN <<Render(color, " (%d warning", w, ""),
                    Render(color, ", %d critical)", c, "")>>
             ELSE <<>>)>>
  ELSE <<>>

\* The "Extra:" line of the single-column version: counts only, no colour.
compactExtraSingle(groups) ==
  IF Len(groups) > 0
  THEN <<<<Seg("Extra: %d groups", Len(groups), "", ""),
           Seg(", %d sensors", SumLen(groups), "", "")>>>>
  ELSE <<>>

compactFooter(m) == <<Render("faint", "Updated: %s", Format(m.lastUpdate), "")>>

\* `if len(lines) > maxLines { lines = lines[:maxLines] }`
truncate(lines) ==
  IF Len(lines) > maxLines THEN SubSeq(lines, 1, maxLines) ELSE lines

compactLines(m) ==
  LET temps == compactTemperatures(m.temperatureSensors)
      firstLine == temps \o compactBattery(temps, m.batteryStatus)
  IN (IF Len(firstLine) > 0 THEN <<firstLine>> ELSE <<>>) \o
     compactExtra(m.extraGroups) \o
     <<compactFooter(m)>>

compactView(m) == Join(truncate(compactLines(m)), NL)

compactLinesSingle(m) ==
  LET temps == compactTemperaturesSingle(m.temperatureSensors)
      firstLine == temps \o compactBattery(temps, m.batteryStatus)
  IN (IF Len(firstLine) > 0 THEN <<firstLine>> ELSE <<>>) \o
     compactExtraSingle(m.extraGroups) \o
     <<compactFooter(m)>>

compactViewSingle(m) == Join(truncate(compactLinesSingle(m)), NL)

(***************************************************************************)
(* The full renderer.                                                      *)
(***************************************************************************)
\* titleStyle.Render: bold title with PaddingBottom(1), one blank line below.
title == <<Render("title", "System Status Monitor", 0, ""), NL, Lit("")>>

temperatureSection(temps) ==
  <<Render("bold", "Temperatures", 0, ""), NL>> \o
  (IF Len(temps) = 0
   THEN <<Lit("  No temperature sensors found"), NL>>
   ELSE Flatten([i \in 1..Len(temps) |->
          <<Lit("  "),
            Render(viewTemperatureColor(temps[i]), "%6.1f C", temps[i].Value, ""),
            Lit("  "), Seg("%s", 0, temps[i].Path, ""), NL>>]))

\* batterySection that prints the header only for a present battery.
batterySection_noHeader(bat) ==
  IF bat.Capacity = 0 /\ bat.Status = ""
  THEN <<Lit("  No battery information"), NL>>
  ELSE <<Render("bold", "Battery", 0, ""), NL, Lit("  Capacity: "),
         Render(viewCapacityColor(bat), "%d%%", bat.Capacity, ""), NL,
         Lit("  Status: "), Seg("%s", 0, bat.Status, ""), NL>>

batterySection(bat) ==
  <<Render("bold", "Battery", 0, ""), NL>> \o
  (IF bat.Capacity = 0 /\ bat.Status = ""
   THEN <<Lit("  No battery information"), NL>>
   ELSE <<Lit("  Capacity: "),
          Render(viewCapacityColor(bat), "%d%%", bat.Capacity, ""), NL,
          Lit("  Status: "), Seg("%s", 0, bat.Status, ""), NL>> \o
        (IF bat.Voltage > 0
         THEN <<Seg("  Voltage: %.2fV", bat.Voltage, "", ""), NL>> ELSE <<>>) \o
        (IF bat.Current # 0
         THEN <<Seg("  Current: %.2fA", bat.Current, "", ""), NL>> ELSE <<>>) \o
        (IF bat.Power > 0
         THEN <<Seg("  Power: %.2fW", bat.Power, "", ""), NL>> ELSE <<>>) \o
        (IF bat.Health # ""
         THEN <<Seg("  Health: %s", 0, bat.Health, ""), NL>> ELSE <<>>) \o
        (IF bat.Temperature > 0
         THEN <<Seg("  Temperature: %.1f C", bat.Temperature, "", ""), NL>>
         ELSE <<>>) \o
        (IF bat.Energy > 0
         THEN <<Seg("  Energy: %.2f Wh", bat.Energy, "", ""), NL>> ELSE <<>>) \o
        (IF bat.CapacityLevel # ""
         THEN <<Seg("  Capacity Level: %s", 0, bat.CapacityLevel, ""), NL>>
         ELSE <<>>))

\* lipgloss.JoinHorizontal(lipgloss.Top, left, sep, right): the blocks are split
\* into lines, the shorter ones get empty lines at the bottom, and line i of the
\* result is line i of every block.  A block's lines are padded with spaces to
\* the block's width; of that padding only the separator's is kept (its line
\* is the separator on every row).
JoinHorizontal(left, sep, right) ==
  LET l == Split(left)
      r == Split(right)
      h == IF Len(l) > Len(r) THEN Len(l) ELSE Len(r)
      row(i) == (IF i <= Len(l) THEN l[i] ELSE <<>>) \o <<sep>> \o
                (IF i <= Len(r) THEN r[i] ELSE <<>>)
  IN Join([i \in 1..h |-> row(i)], NL)

\* extraSections that leaves out the groups without sensors.
extraSections_skipEmpty(groups) ==
  Flatten([g \in 1..Len(groups) |->
    IF Len(groups[g].Sensors) = 0 THEN <<>>
    ELSE <<NL, Render("bold", "%s", 0, groups[g].Name), NL>> \o
         Flatten([i \in 1..Len(groups[g].Sensors) |->
           LET sensor == groups[g].Sensors[i]
               v == Value(sensor)
           IN <<Lit("  "), Seg("%-20s", 0, Name(sensor), ""), Lit(": "),
                Render(sensorColor(sensor), v.t, v.n, v.s), NL>>])])

extraSections(groups) ==
  Flatten([g \in 1..Len(groups) |->
    <<NL, Render("bold", "%s", 0, groups[g].Name), NL>> \o
    (IF Len(groups[g].Sensors) = 0
     THEN <<Lit("  No sensors"), NL>>
     ELSE Flatten([i \in 1..Len(groups[g].Sensors) |->
            LET sensor == groups[g].Sensors[i]
                v == Value(sensor)
            IN <<Lit("  "), Seg("%-20s", 0, Name(sensor), ""), Lit(": "),
                 Render(sensorColor(sensor), v.t, v.n, v.s), NL>>]))])

\* footer that prints the time of the call.
footer_clock(m) ==
  <<NL, Render("faint", "Last updated: %s | Press 'q' to quit", Format(now), "")>>

footer(m) ==
  <<NL, Render("faint", "Last updated: %s | Press 'q' to quit",
               Format(m.lastUpdate), "")>>

\* The rest of View in the two-column version.
fullView(m) ==
  title \o <<NL, NL>> \o
  JoinHorizontal(temperatureSection(m.temperatureSensors), Lit("    "),
                 batterySection(m.batteryStatus)) \o
  <<NL>> \o
  extraSections(m.extraGroups) \o
  footer(m)

\* The rest of View in the single-column version.
fullViewSingle(m) ==
  title \o <<NL, NL>> \o
  temperatureSection(m.temperatureSensors) \o <<NL>> \o
  batterySection(m.batteryStatus) \o
  extraSections(m.extraGroups) \o
  footer(m)

Initializing == <<Lit("Initializing...")>>

\* View with the threshold comparison off by one: height 9 gets the full view.
View_lowThreshold(v, m) ==
  IF m.width = 0 \/ m.height = 0 THEN Initializing
  ELSE IF m.height < compactHeightThreshold - 1
       THEN (IF v = "two_column" THEN compactView(m) ELSE compactViewSingle(m))
       ELSE (IF v = "two_column" THEN fullView(m) ELSE fullViewSingle(m))

\* View with <= for <: height 10 gets the compact view.
View_inclusive(v, m) ==
  IF m.width = 0 \/ m.height = 0 THEN Initializing
  ELSE IF m.height <= compactHeightThreshold
       THEN (IF v = "two_column" THEN compactView(m) ELSE compactViewSingle(m))
       ELSE (IF v = "two_column" THEN fullView(m) ELSE fullViewSingle(m))

View(v, m) ==
  IF m.width = 0 \/ m.height = 0 THEN Initializing
  ELSE IF m.height < compactHeightThreshold
       THEN (IF v = "two_column" THEN compactView(m) ELSE compactViewSingle(m))
       ELSE (IF v = "two_column" THEN fullView(m) ELSE fullViewSingle(m))

(***************************************************************************)
(* The monitor and its update function.                                    *)
(***************************************************************************)
Monitor(temps, battery, groups, lastUpdate, width, height) ==
  [temperatureSensors |-> temps, batteryStatus |-> battery,
   extraGroups |-> groups, lastUpdate |-> lastUpdate,
   width |-> width, height |-> height]

\* NewMonitor() called at time t.
NewMonitor(t) == Monitor(<<>>, ZeroBatteryStatus, <<>>, t, 0, 0)

RegisterSensorGroup(m, group) ==
  [m EXCEPT !.extraGroups = Append(@, group)]

RECURSIVE refreshFrom_stopOnError(_, _, _, _, _)
\* refreshFrom that returns at the first Refresh that fails.
refreshFrom_stopOnError(groups, results, g, i, log) ==
  IF g > Len(groups) THEN [groups |-> groups, log |-> log]
  ELSE IF i > Len(groups[g].Sensors)
       THEN refreshFrom_stopOnError(groups, results, g + 1, 1, log)
       ELSE LET r == Refresh(groups[g].Sensors[i], results[g][i])
            IN IF r.err
               THEN [groups |-> groups, log |-> Append(log, <<g, i>>)]
               ELSE refreshFrom_stopOnError(
                      [groups EXCEPT ![g].Sensors[i] = r.sensor], results,
                      g, i + 1, Append(log, <<g, i>>))

RECURSIVE refreshFrom(_, _, _, _, _)
\* The two loops of updateSensors from sensor i of group g on.  results[g][i]
\* is what that sensor's callback returns this time.  log records every call
\* of Refresh, by position; the error a call returns is dropped.
refreshFrom(groups, results, g, i, log) ==
  IF g > Len(groups) THEN [groups |-> groups, log |-> log]
  ELSE IF i > Len(groups[g].Sensors)
       THEN refreshFrom(groups, results, g + 1, 1, log)
       ELSE LET r == Refresh(groups[g].Sensors[i], results[g][i])
            IN refreshFrom([groups EXCEPT ![g].Sensors[i] = r.sensor], results,
                           g, i + 1, Append(log, <<g, i>>))

\* updateSensors that keeps the old records when the source returns none.
updateSensors_keepWhenEmpty(m, env) ==
  LET r == refreshFrom(m.extraGroups, env.results, 1, 1, <<>>)
  IN [m |-> [m EXCEPT !.temperatureSensors =
                        IF Len(env.temps) = 0 THEN @ ELSE env.temps,
                      !.batteryStatus = env.battery,
                      !.extraGroups = r.groups],
      log |-> r.log]

\* updateSensors(): env.temps and env.battery are what ReadTemperatures() and
\* ReadBatteryStatus() return.
updateSensors(m, env) ==
  LET r == refreshFrom(m.extraGroups, env.results, 1, 1, <<>>)
  IN [m |-> [m EXCEPT !.temperatureSensors = env.temps,
                      !.batteryStatus = env.battery,
                      !.extraGroups = r.groups],
      log |-> r.log]

\* Messages of the host runtime.
WindowSizeMsg(w, h) == [type |-> "WindowSizeMsg", Width |-> w, Height |-> h, key |-> ""]
tickMsg == [type |-> "tickMsg", Width |-> 0, Height |-> 0, key |-> ""]
KeyMsg(k) == [type |-> "KeyMsg", Width |-> 0, Height |-> 0, key |-> k]

\* Monitor.Init(): the command it returns.
Init_cmd == "tick"

\* Update whose resize branch also drops the temperature records.
Update_resizeClears(m, msg, env) ==
  CASE msg.type = "WindowSizeMsg" ->
         [m |-> [m EXCEPT !.width = msg.Width, !.height = msg.Height,
                          !.temperatureSensors = <<>>],
          cmd |-> "nil", log |-> <<>>, read |-> FALSE]
    [] msg.type = "tickMsg" ->
         LET u == updateSensors(m, env)
         IN [m |-> [u.m EXCEPT !.lastUpdate = env.now],
             cmd |-> "tick", log |-> u.log, read |-> TRUE]
    [] OTHER -> [m |-> m, cmd |-> "nil", log |-> <<>>, read |-> FALSE]

\* Update that answers any other message with a tick command.
Update_tickOnKey(m, msg, env) ==
  CASE msg.type = "WindowSizeMsg" ->
         [m |-> [m EXCEPT !.width = msg.Width, !.height = msg.Height],
          cmd |-> "nil", log |-> <<>>, read |-> FALSE]
    [] msg.type = "tickMsg" ->
         LET u == updateSensors(m, env)
         IN [m |-> [u.m EXCEPT !.lastUpdate = env.now],
             cmd |-> "tick", log |-> u.log, read |-> TRUE]
    [] OTHER -> [m |-> m, cmd |-> "tick", log |-> <<>>, read |-> FALSE]

\* Update that also returns a tick command for a resize.
Update_tickOnResize(m, msg, env) ==
  CASE msg.type = "WindowSizeMsg" ->
         [m |-> [m EXCEPT !.width = msg.Width, !.height = msg.Height],
          cmd |-> "tick", log |-> <<>>, read |-> FALSE]
    [] msg.type = "tickMsg" ->
         LET u == updateSensors(m, env)
         IN [m |-> [u.m EXCEPT !.lastUpdate = env.now],
             cmd |-> "tick", log |-> u.log, read |-> TRUE]
    [] OTHER -> [m |-> m, cmd |-> "nil", log |-> <<>>, read |-> FALSE]

\* Monitor.Update(msg): the monitor and the command it returns; env.now is
\* time.Now().
Update(m, msg, env) ==
  CASE msg.type = "WindowSizeMsg" ->
         [m |-> [m EXCEPT !.width = msg.Width, !.height = msg.Height],
          cmd |-> "nil", log |-> <<>>, read |-> FALSE]
    [] msg.type = "tickMsg" ->
         LET u == updateSensors(m, env)
         IN [m |-> [u.m EXCEPT !.lastUpdate = env.now],
             cmd |-> "tick", log |-> u.log, read |-> TRUE]
    [] OTHER -> [m |-> m, cmd |-> "nil", log |-> <<>>, read |-> FALSE]

\* model.Update(msg) of the host program.
modelUpdate(m, msg, env) ==
  IF msg.type = "KeyMsg" /\ msg.key \in {"ctrl+c", "q"}
  THEN [m |-> m, cmd |-> "quit", log |-> <<>>, read |-> FALSE]
  ELSE Update(m, msg, env)

(***************************************************************************)
(* Inputs.                                                                 *)
(***************************************************************************)
SeqsUpTo(S, n) == UNION {[1..k -> S] : k \in 0..n}

\* thermal_zone0, thermal_zone1, ...: the path of the i-th record read.
ZonePath(i) ==
  CASE i = 1 -> "thermal_zone0" [] i = 2 -> "thermal_zone1"
    [] i = 3 -> "thermal_zone2" [] OTHER -> "hwmon"

\* The type of the i-th zone, the name of its record.
ZoneName(i) ==
  CASE i = 1 -> "x86_pkg_temp" [] i = 2 -> "acpitz"
    [] i = 3 -> "iwlwifi" [] OTHER -> "coretemp"

WithPaths(temps) ==
  [i \in 1..Len(temps) |->
     [temps[i] EXCEPT !.Name = ZoneName(i), !.Path = ZonePath(i)]]

\* {high, critical} pairs: ordered, equal, and reversed (a zone whose first
\* trip point is the hotter one).
ThresholdPairs == {<<1, 2>>, <<2, 2>>, <<2, 1>>}

TemperatureRecords ==
  {TemperatureSensor("", v, th[1], th[2], "") : v \in {-1, 1, 2}, th \in ThresholdPairs}

\* Every snapshot ReadTemperatures() may return, up to MaxTemps records.
TemperatureLists == {WithPaths(l) : l \in SeqsUpTo(TemperatureRecords, MaxTemps)}

FewTemperatureLists ==
  {<<>>, WithPaths(<<TemperatureSensor("", 1, 2, 3, ""), TemperatureSensor("", 2, 2, 3, "")>>)}

BatteryStatuses ==
  {BatteryStatus(c, st, v, 0, 0, "", 0, 0, "") :
     c \in {-1, 0, 19, 20, 49, 50}, st \in {"", "Discharging"}, v \in {0, 12}}
  \cup {BatteryStatus(85, "Charging", 4, -2, 8, "Good", 30, 40, "Normal")}

\* Present batteries with every combination of the optional fields unset, set
\* and (for the numbers that can be) negative: a discharge current counted
\* negative with the power derived from it, a temperature below zero.
DetailedBatteryStatuses ==
  {BatteryStatus(50, "Discharging", v, c, p, h, t, e, l) :
     v \in {0, 12}, c \in {0, -2}, p \in {0, -24, 8}, h \in {"", "Good"},
     t \in {0, -5, 30}, e \in {0, 40}, l \in {"", "Normal"}}

FewBatteryStatuses ==
  {ZeroBatteryStatus, BatteryStatus(30, "Discharging", 0, 0, 0, "", 0, 0, "")}

\* Cached triples a generic sensor may hold.
SensorStates ==
  {GenericSensorOf("Sensor", v[1], v[2], v[3], TRUE) :
     v \in {<<"OK", FALSE, FALSE>>, <<"WARN", TRUE, FALSE>>,
            <<"CRIT", FALSE, TRUE>>, <<"BOTH", TRUE, TRUE>>}}

RECURSIVE GroupLists(_, _)
\* Every list of at most g groups holding at most n sensors in all.
GroupLists(g, n) ==
  IF g = 0 THEN {<<>>}
  ELSE {<<>>} \cup
       UNION {{<<SensorGroup("Custom", ss)>> \o rest :
                 rest \in GroupLists(g - 1, n - Len(ss))} :
              ss \in SeqsUpTo(SensorStates, n)}

FewGroupLists ==
  {<<>>, <<SensorGroup("Custom", <<GenericSensorOf("Sensor", "OK", FALSE, FALSE, TRUE)>>)>>}

\* What the refresh cycle reads in the event-loop specification.
ReadTemperatures ==
  {WithPaths(l) : l \in SeqsUpTo({TemperatureSensor("", 1, 2, 3, "")}, MaxTemps)}

ReadBatteryStatus == FewBatteryStatuses

RefreshResults ==
  {RefreshResult("", FALSE, FALSE, TRUE), RefreshResult("HOT", TRUE, TRUE, FALSE)}

RECURSIVE ResultsFor(_)
\* One callback result for every sensor of every group.
ResultsFor(groups) ==
  IF Len(groups) = 0 THEN {<<>>}
  ELSE {<<h>> \o t : h \in [1..Len(groups[1].Sensors) -> RefreshResults],
                     t \in ResultsFor(Tail(groups))}

\* Viewports a resize may report: <<width, height>>.
Viewports == {<<0, 15>>, <<80, 0>>, <<80, 9>>, <<80, 10>>, <<40, 15>>}
Keys == {"q", "ctrl+c", "x"}

NoEnv == [temps |-> <<>>, battery |-> ZeroBatteryStatus, results |-> <<>>, now |-> 0]

\* No operation is called.
NoCall == [op |-> "none", done |-> FALSE]

\* The operation op is about to be called for the first time.
Calling(op) == [op |-> op, done |-> FALSE]

\* What a refresh callback may hand back: failures with and without values
\* beside the error, and successes.
CallbackResults ==
  RefreshResults \cup
  {RefreshResult("BAD", TRUE, TRUE, TRUE), RefreshResult("COOL", FALSE, FALSE, FALSE),
   RefreshResult("WARM", TRUE, FALSE, FALSE)}

\* The sensors Refresh is called on: generic ones with a callback and every
\* cached triple, one without a callback, and the two adapters.
SensorsUnderTest ==
  SensorStates \cup
  {NewGenericSensor("Sensor", TRUE), NewGenericSensor("Sensor", FALSE),
   TemperatureSensorAdapter(TemperatureSensor("acpitz", 2, 2, 3, "thermal_zone0")),
   BatterySensorAdapter(BatteryStatus(30, "Discharging", 0, 0, 0, "", 0, 0, ""))}

(***************************************************************************)
(* The data sources.  sysfs is what the kernel exposes: a file is missing,  *)
(* or holds text, or holds text that strconv parses as a number.  Numbers  *)
(* are in the kernel's units (millidegrees, microvolts, ...) and always    *)
(* whole multiples of the unit the program converts to, so the float       *)
(* division is exact.                                                      *)
(***************************************************************************)
Milli == 1000
Micro == 1000000
Tenth == 10
DefaultHigh == 80
DefaultCritical == 100

File(exists, numeric, n, text) ==
  [exists |-> exists, numeric |-> numeric, n |-> n, text |-> text]
NoFile == File(FALSE, FALSE, 0, "")
Num(n) == File(TRUE, TRUE, n, "")
Text(t) == File(TRUE, FALSE, 0, t)

\* os.ReadFile succeeded and strconv.ParseInt / Atoi of the trimmed text did.
Parses(f) == f.exists /\ f.numeric

\* /sys/class/thermal/thermal_zoneN
ZoneDir(temp, type, trip0, trip1) ==
  [temp |-> temp, type |-> type, trip_point_0_temp |-> trip0,
   trip_point_1_temp |-> trip1]

\* One tempN_* family of a hwmon directory.
HwmonInput(base, input, label, crit, max) ==
  [base |-> base, input |-> input, label |-> label, crit |-> crit, max |-> max]

\* /sys/class/hwmon/hwmonN
HwmonDir(name, inputs) == [name |-> name, inputs |-> inputs]

\* /sys/class/power_supply/NAME
SupplyDir(type, capacity, status, voltage, current, power, health, temp, energy, level) ==
  [type |-> type, capacity |-> capacity, status |-> status,
   voltage_now |-> voltage, current_now |-> current, power_now |-> power,
   health |-> health, temp |-> temp, energy_now |-> energy,
   capacity_level |-> level]

Sysfs(thermalExists, zones, hwmons, supplies) ==
  [thermalExists |-> thermalExists, thermal |-> zones, hwmon |-> hwmons,
   power_supply |-> supplies]

\* readThermalZone(zonePath): the record and whether an error is returned.
readThermalZone(zonePath, zone) ==
  IF ~Parses(zone.temp)
  THEN [sensor |-> ZeroTemperatureSensor, err |-> TRUE]
  ELSE LET name == IF zone.type.exists THEN zone.type.text ELSE zonePath
           t0 == zone.trip_point_0_temp
           t1 == zone.trip_point_1_temp
           high == IF Parses(t0) /\ t0.n >= 0 THEN t0.n \div Milli ELSE 0
           critical == IF Parses(t1) /\ t1.n >= 0 THEN t1.n \div Milli ELSE 0
       IN [sensor |-> TemperatureSensor(name, zone.temp.n \div Milli,
                        IF high = 0 THEN DefaultHigh ELSE high,
                        IF critical = 0 THEN DefaultCritical ELSE critical,
                        zonePath),
           err |-> FALSE]

\* fmt.Sprintf("%s_%s", hwmonName, base) for the names in use.
HwmonSensorName(hwmonName, base) ==
  CASE hwmonName = "coretemp" /\ base = "temp1" -> "coretemp_temp1"
    [] hwmonName = "coretemp" /\ base = "temp2" -> "coretemp_temp2"
    [] OTHER -> "hwmon_temp"

\* The path of the input file of a family.
InputPath(base) ==
  CASE base = "temp1" -> "temp1_input" [] base = "temp2" -> "temp2_input"
    [] OTHER -> "temp_input"

\* readHwmonSensors(hwmonPath): one record per readable input.
readHwmonSensors(dir) ==
  IF ~dir.name.exists THEN <<>>
  ELSE LET one(in) ==
             IF ~Parses(in.input) THEN <<>>
             ELSE <<TemperatureSensor(
                      IF in.label.exists THEN in.label.text
                      ELSE HwmonSensorName(dir.name.text, in.base),
                      in.input.n \div Milli,
                      IF Parses(in.max) /\ in.max.n >= 0
                      THEN in.max.n \div Milli ELSE DefaultHigh,
                      IF Parses(in.crit) /\ in.crit.n >= 0
                      THEN in.crit.n \div Milli ELSE DefaultCritical,
                      InputPath(in.base))>>
       IN Flatten([i \in 1..Len(dir.inputs) |-> one(dir.inputs[i])])

\* ReadTemperatures() on the file system fs.
ReadTemperaturesFrom(fs) ==
  IF ~fs.thermalExists THEN <<>>
  ELSE Flatten([i \in 1..Len(fs.thermal) |->
                 LET r == readThermalZone(ZonePath(i), fs.thermal[i])
                 IN IF r.err THEN <<>> ELSE <<r.sensor>>])
       \o Flatten([i \in 1..Len(fs.hwmon) |-> readHwmonSensors(fs.hwmon[i])])

\* The first power supply whose type file says "Battery", 0 if there is none.
batteryPath(supplies) ==
  IF \E i \in 1..Len(supplies) :
       supplies[i].type.exists /\ supplies[i].type.text = "Battery"
  THEN CHOOSE i \in 1..Len(supplies) :
         /\ supplies[i].type.exists /\ supplies[i].type.text = "Battery"
         /\ \A j \in 1..(i - 1) :
              ~(supplies[j].type.exists /\ supplies[j].type.text = "Battery")
  ELSE 0

\* ReadBatteryStatus() on the file system fs.
ReadBatteryStatusFrom(fs) ==
  IF batteryPath(fs.power_supply) = 0 THEN ZeroBatteryStatus
  ELSE LET d == fs.power_supply[batteryPath(fs.power_supply)]
           number(f, unit) == IF Parses(f) THEN f.n \div unit ELSE 0
           string(f) == IF f.exists THEN f.text ELSE ""
           voltage == number(d.voltage_now, Micro)
           current == number(d.current_now, Micro)
           power == number(d.power_now, Micro)
       IN BatteryStatus(number(d.capacity, 1), string(d.status), voltage, current,
                        IF power = 0 /\ voltage > 0 /\ current # 0
                        THEN voltage * current ELSE power,
                        string(d.health), number(d.temp, Tenth),
                        number(d.energy_now, Micro), string(d.capacity_level))

\* A machine without /sys/class/thermal, hwmon and power supplies.
NoSysfs == Sysfs(FALSE, <<>>, <<>>, <<>>)

\* What a threshold file may hold: nothing, text that is no number, a
\* negative number, zero, and a positive temperature t (in degrees).
ThresholdFiles(t) == {NoFile, Text("n/a"), Num(-Milli), Num(0), Num(t * Milli)}

\* Thermal zones: every combination of the two trip point files, with and
\* without a type file, with a temperature that parses or does not.
ZoneDirs ==
  {ZoneDir(temp, type, t0, t1) :
     temp \in {Num(45 * Milli), Text("n/a")}, type \in {Text("acpitz"), NoFile},
     t0 \in ThresholdFiles(70), t1 \in ThresholdFiles(90)}

FewZoneDirs ==
  {ZoneDir(Num(45 * Milli), Text("acpitz"), Num(70 * Milli), Num(90 * Milli)),
   ZoneDir(NoFile, Text("acpitz"), NoFile, NoFile)}

\* hwmon inputs: every combination of the max and crit files.
HwmonInputs ==
  {HwmonInput("temp1", input, label, crit, max) :
     input \in {Num(50 * Milli), NoFile}, label \in {Text("Core 0"), NoFile},
     crit \in ThresholdFiles(95), max \in ThresholdFiles(85)}

FewHwmonDirs ==
  {HwmonDir(NoFile, <<HwmonInput("temp1", Num(50 * Milli), NoFile, NoFile, NoFile)>>),
   HwmonDir(Text("coretemp"),
            <<HwmonInput("temp1", Num(50 * Milli), NoFile, NoFile, NoFile),
              HwmonInput("temp2", Num(60 * Milli), NoFile, Num(0), Num(0))>>)}

\* A mains adapter, which is no battery.
MainsDir ==
  SupplyDir(Text("Mains"), NoFile, NoFile, NoFile, NoFile, NoFile, NoFile,
            NoFile, NoFile, NoFile)

\* Batteries: every combination of the voltage, current and power files.
BatteryDirs ==
  {SupplyDir(Text("Battery"), Num(50), Text("Discharging"), v, c, p, NoFile,
             NoFile, NoFile, NoFile) :
     v \in {NoFile, Num(0), Num(12 * Micro)},
     c \in {NoFile, Num(0), Num(2 * Micro), Num(-2 * Micro)},
     p \in {NoFile, Text("n/a"), Num(0), Num(8 * Micro)}}
  \cup
  {SupplyDir(Text("Battery"), Text("n/a"), NoFile, Num(12 * Micro), Num(2 * Micro),
             NoFile, Text("Good"), Num(30 * Tenth), Num(40 * Micro), Text("Normal"))}

\* The file systems the sources are read from: one kind of directory varied
\* at a time.
SysfsStates ==
  {Sysfs(TRUE, <<z>>, <<>>, <<>>) : z \in ZoneDirs}
  \cup
  {Sysfs(e, zs, hs, <<>>) : e \in BOOLEAN, zs \in SeqsUpTo(FewZoneDirs, MaxTemps),
                            hs \in SeqsUpTo(FewHwmonDirs, 1)}
  \cup
  {Sysfs(TRUE, <<>>, <<HwmonDir(Text("coretemp"), <<in>>)>>, <<>>) : in \in HwmonInputs}
  \cup
  {Sysfs(FALSE, <<>>, <<>>, <<MainsDir, b>>) : b \in BatteryDirs}
  \cup
  {Sysfs(FALSE, <<>>, <<>>, ps) : ps \in {<<>>, <<MainsDir>>}}

(***************************************************************************)
(* The event loop: the host delivers one message at a time to model.Update *)
(* and renders the view after each.                                        *)
(***************************************************************************)
Init ==
  /\ variant \in Variants
  /\ phase = "setup"
  /\ now = 0
  /\ mon = NewMonitor(0)
  /\ timers = 0
  /\ screen = View(variant, NewMonitor(0))
  /\ srcTemps = <<>>
  /\ srcBattery = ZeroBatteryStatus
  /\ prevCount = 0
  /\ refreshed = <<>>
  /\ theSensor = NewGenericSensor("Sensor", TRUE)
  /\ sysfs = NoSysfs
  /\ ret = NoCall

\* Before the program starts: m.RegisterSensorGroup(group), k new sensors.
Register(k) ==
  /\ phase = "setup"
  /\ Len(mon.extraGroups) < MaxGroups
  /\ SumLen(mon.extraGroups) + k <= MaxSensors
  /\ mon' = RegisterSensorGroup(mon,
              SensorGroup("Custom", [i \in 1..k |-> NewGenericSensor("Sensor", TRUE)]))
  /\ screen' = View(variant, mon')
  /\ UNCHANGED <<variant, phase, now, timers, srcTemps, srcBattery, prevCount, refreshed>>
  /\ UNCHANGED <<theSensor, sysfs, ret>>

\* tea.NewProgram(...).Run(): model.Init() returns the first tick command.
Start ==
  /\ phase = "setup"
  /\ phase' = "running"
  /\ timers' = timers + (IF Init_cmd = "tick" THEN 1 ELSE 0)
  /\ screen' = View(variant, mon)
  /\ UNCHANGED <<variant, mon, now, srcTemps, srcBattery, prevCount, refreshed>>
  /\ UNCHANGED <<theSensor, sysfs, ret>>

\* The program loop is receiving messages: it has started, and a message that
\* arrives after model.Update returned tea.Quit is handled like any other, for
\* returning the command does not stop the loop.  phase "quit" says that the
\* quit command has been returned; the loop ends when the QuitMsg the command
\* produces is received, and nothing is handled after that.
Receiving == phase \in {"running", "quit"}

\* The host hands msg to model.Update, runs the returned command and renders.
Deliver(msg, env) ==
  LET u == modelUpdate(mon, msg, env)
  IN /\ mon' = u.m
     /\ timers' = (IF msg.type = "tickMsg" THEN timers - 1 ELSE timers)
                  + (IF u.cmd = "tick" THEN 1 ELSE 0)
     /\ phase' = IF u.cmd = "quit" THEN "quit" ELSE phase
     /\ screen' = View(variant, u.m)
     /\ refreshed' = IF msg.type = "tickMsg" THEN u.log ELSE refreshed
     /\ srcTemps' = IF u.read THEN env.temps ELSE srcTemps
     /\ srcBattery' = IF u.read THEN env.battery ELSE srcBattery
     /\ prevCount' = IF u.read THEN Len(mon.temperatureSensors) ELSE prevCount

Resize(w, h) ==
  /\ Receiving
  /\ Deliver(WindowSizeMsg(w, h), NoEnv)
  /\ UNCHANGED <<variant, now, theSensor, sysfs, ret>>

\* A tick command fires TickInterval later and its tickMsg is handled.
Tick ==
  /\ Receiving
  /\ timers > 0
  /\ now + TickInterval <= MaxClock
  /\ now' = now + TickInterval
  /\ \E temps \in ReadTemperatures, battery \in ReadBatteryStatus,
        results \in ResultsFor(mon.extraGroups) :
       Deliver(tickMsg, [temps |-> temps, battery |-> battery,
                         results |-> results, now |-> now'])
  /\ UNCHANGED <<variant, theSensor, sysfs, ret>>

Key(k) ==
  /\ Receiving
  /\ Deliver(KeyMsg(k), NoEnv)
  /\ UNCHANGED <<variant, now, theSensor, sysfs, ret>>

Next ==
  \/ \E k \in 0..MaxSensors : Register(k)
  \/ Start
  \/ \E vp \in Viewports : Resize(vp[1], vp[2])
  \/ Tick
  \/ \E k \in Keys : Key(k)

Spec == Init /\ [][Next]_vars

(***************************************************************************)
(* The renderer on its own: every monitor state of the ranges above, drawn *)
(* one range at a time, with the viewport set by resize events.            *)
(***************************************************************************)
ViewStates ==
  {Monitor(t, b, g, 0, 0, 0) :
     t \in TemperatureLists, b \in FewBatteryStatuses, g \in FewGroupLists}
  \cup
  {Monitor(t, b, g, 0, 0, 0) :
     t \in FewTemperatureLists, b \in BatteryStatuses, g \in FewGroupLists}
  \cup
  {Monitor(t, b, g, 0, 0, 0) :
     t \in FewTemperatureLists, b \in FewBatteryStatuses,
     g \in GroupLists(MaxGroups, MaxSensors)}
  \cup
  {Monitor(t, b, CreateSensorGroups(t, b), 0, 0, 0) :
     t \in TemperatureLists, b \in FewBatteryStatuses}
  \cup
  {Monitor(<<>>, b, <<>>, 0, 0, 0) : b \in DetailedBatteryStatuses}

InitView ==
  /\ variant \in Variants
  /\ phase = "running"
  /\ now = 0
  /\ timers = 1
  /\ srcTemps = <<>>
  /\ srcBattery = ZeroBatteryStatus
  /\ prevCount = 0
  /\ refreshed = <<>>
  /\ mon \in ViewStates
  /\ screen = View(variant, mon)
  /\ theSensor = NewGenericSensor("Sensor", TRUE)
  /\ sysfs = NoSysfs
  /\ ret = NoCall

NextView == \E vp \in Viewports : Resize(vp[1], vp[2])

SpecView == InitView /\ [][NextView]_vars

(***************************************************************************)
(* Single calls: one operation, which ret.op names from the start, is      *)
(* called any number of times on inputs drawn from the sets above.         *)
(***************************************************************************)
\* The monitors Update and View are called on.
CallStates ==
  {Monitor(t, b, g, 0, vp[1], vp[2]) :
     t \in FewTemperatureLists, b \in FewBatteryStatuses, g \in FewGroupLists,
     vp \in Viewports}

InitCalls ==
  /\ variant \in Variants
  /\ phase = "running"
  /\ now = 0
  /\ timers = 1
  /\ srcTemps = <<>>
  /\ srcBattery = ZeroBatteryStatus
  /\ prevCount = 0
  /\ refreshed = <<>>
  /\ \/ /\ ret = Calling("Refresh")
        /\ theSensor \in SensorsUnderTest
        /\ sysfs = NoSysfs
        /\ mon = NewMonitor(0)
     \/ /\ ret = Calling("Read")
        /\ theSensor = NewGenericSensor("Sensor", TRUE)
        /\ sysfs \in SysfsStates
        /\ mon = NewMonitor(0)
     \/ /\ ret \in {Calling("Update"), Calling("View")}
        /\ theSensor = NewGenericSensor("Sensor", TRUE)
        /\ sysfs = NoSysfs
        /\ mon \in CallStates
  /\ screen = View(variant, mon)

\* sensor.Refresh() with a callback that returns r.
RefreshCall(r) ==
  /\ ret.op = "Refresh"
  /\ LET out == Refresh(theSensor, r)
     IN /\ theSensor' = out.sensor
        /\ ret' = [op |-> "Refresh", done |-> TRUE, before |-> theSensor,
                   result |-> r, err |-> out.err]
  /\ UNCHANGED <<variant, phase, mon, now, timers, screen, srcTemps, srcBattery,
                 prevCount, refreshed, sysfs>>

\* ReadTemperatures() and ReadBatteryStatus() on the file system.
ReadCall ==
  /\ ret.op = "Read"
  /\ srcTemps' = ReadTemperaturesFrom(sysfs)
  /\ srcBattery' = ReadBatteryStatusFrom(sysfs)
  /\ ret' = [op |-> "Read", done |-> TRUE]
  /\ UNCHANGED <<variant, phase, mon, now, timers, screen, prevCount, refreshed,
                 theSensor, sysfs>>

\* model.Update(msg), with what Monitor.Update returns for the same message.
UpdateCall(msg, env) ==
  /\ ret.op = "Update"
  /\ Receiving
  /\ Deliver(msg, env)
  /\ now' = env.now
  /\ ret' = [op |-> "Update", done |-> TRUE, msg |-> msg, before |-> mon,
             core |-> Update(mon, msg, env), cmd |-> modelUpdate(mon, msg, env).cmd]
  /\ UNCHANGED <<variant, theSensor, sysfs>>

\* model.View() some time after the last event: no event comes in between.
ViewCall ==
  /\ ret.op = "View"
  /\ now < MaxClock
  /\ now' = now + 1
  /\ screen' = View(variant, mon)
  /\ ret' = [op |-> "View", done |-> TRUE,
             calls |-> IF ret.done THEN ret.calls + 1 ELSE 1,
             before |-> IF ret.done THEN ret.before ELSE mon,
             first |-> IF ret.done THEN ret.first ELSE screen']
  /\ UNCHANGED <<variant, phase, mon, timers, srcTemps, srcBattery, prevCount,
                 refreshed, theSensor, sysfs>>

NextCalls ==
  \/ \E r \in CallbackResults : RefreshCall(r)
  \/ ReadCall
  \/ \E vp \in Viewports : UpdateCall(WindowSizeMsg(vp[1], vp[2]), [NoEnv EXCEPT !.now = now])
  \/ \E k \in Keys : UpdateCall(KeyMsg(k), [NoEnv EXCEPT !.now = now])
  \/ /\ now + TickInterval <= MaxClock
     /\ \E temps \in ReadTemperatures, battery \in ReadBatteryStatus,
           results \in ResultsFor(mon.extraGroups) :
          UpdateCall(tickMsg, [temps |-> temps, battery |-> battery,
                               results |-> results, now |-> now + TickInterval])
  \/ ViewCall

SpecCalls == InitCalls /\ [][NextCalls]_vars

(***************************************************************************)
(* Properties.                                                             *)
(***************************************************************************)
Contains(text, seg) == \E i \in 1..Len(text) : text[i] = seg
ContainsText(text, t) == \E i \in 1..Len(text) : text[i].t = t

\* The viewport is known and too low for the full view.
CompactMode == mon.width # 0 /\ mon.height # 0 /\ mon.height < 10
\* The viewport is known and high enough for the full view.
FullMode == mon.width # 0 /\ mon.height >= 10

IsSentinel(bat) == bat.Capacity = 0 /\ bat.Status = ""

TemperaturesHeader == Seg("Temperatures", 0, "", "bold")
BatteryHeader == Seg("Battery", 0, "", "bold")

\* C1: whenever the stored height is below 10, the text View returned has at
\* most 3 newline-delimited lines, whatever the sensors, battery and groups.
C1_AtMostThreeLines == mon.height < 10 => Len(Split(screen)) <= 3

\* C1 witness: a compact view with temperatures, a battery and an extra group
\* that fills all three lines.
C1_Witness ==
  /\ CompactMode
  /\ Len(mon.temperatureSensors) > 0
  /\ ~IsSentinel(mon.batteryStatus)
  /\ Len(mon.extraGroups) > 0
  /\ Len(Split(screen)) = 3

\* C2: the output is chosen by the stored dimensions alone: the placeholder
\* when width or height is 0, else the compact rendering below height 10, else
\* (height 10 included) the full rendering.
C2_ViewSelection ==
  IF mon.width = 0 \/ mon.height = 0
  THEN screen = <<Lit("Initializing...")>>
  ELSE IF mon.height < 10
       THEN screen = (IF variant = "two_column" THEN compactView(mon)
                      ELSE compactViewSingle(mon))
       ELSE screen = (IF variant = "two_column" THEN fullView(mon)
                      ELSE fullViewSingle(mon))

\* C2 witness: height exactly 10 with sensors present shows the full rendering,
\* which differs from the compact one.
C2_Witness ==
  /\ mon.width # 0
  /\ mon.height = 10
  /\ Len(mon.temperatureSensors) > 0
  /\ screen = (IF variant = "two_column" THEN fullView(mon) ELSE fullViewSingle(mon))
  /\ screen # compactView(mon)
  /\ screen # compactViewSingle(mon)

\* C3: with width nonzero and height at least 10 the output holds both section
\* headers, "Temperatures" and "Battery", also with no record and no battery.
C3_SectionHeaders ==
  FullMode => Contains(screen, TemperaturesHeader) /\ Contains(screen, BatteryHeader)

\* C3 witness: the full view of a monitor with no temperature record and the
\* absent battery shows both headers above the two notices.
C3_Witness ==
  /\ FullMode
  /\ Len(mon.temperatureSensors) = 0
  /\ IsSentinel(mon.batteryStatus)
  /\ Contains(screen, TemperaturesHeader)
  /\ Contains(screen, BatteryHeader)
  /\ Contains(screen, Lit("  No temperature sensors found"))
  /\ Contains(screen, Lit("  No battery information"))

\* The segment written right after the first occurrence of seg.
After(text, seg) ==
  LET i == CHOOSE k \in 1..Len(text) :
             text[k] = seg /\ \A j \in 1..(k - 1) : text[j] # seg
  IN text[i + 1]

\* The segments of text written with the verb t, in order.
Written(text, t) == SelectSeq(text, LAMBDA x : x.t = t)

\* section 4.4: temperature green/orange/red at <high / >=high / >=critical.
ClaimedTemperatureColor(r) ==
  IF r.Value >= r.Critical THEN Red
  ELSE IF r.Value >= r.High THEN Orange
  ELSE Green

\* section 4.4: battery green/orange/red at >=50% / 20-49% / <20%.
ClaimedCapacityColor(c) ==
  IF c >= 50 THEN Green ELSE IF c >= 20 THEN Orange ELSE Red

\* C4: the compact output has a + b + 1 lines: the first line iff there is a
\* temperature record or the battery is not the absent sentinel (a = 1), the
\* "Extra:" line iff a group is registered (b = 1), the "Updated:" footer last.
C4_CompactLines ==
  CompactMode =>
    LET lines == Split(screen)
        a == IF Len(mon.temperatureSensors) > 0 \/ ~IsSentinel(mon.batteryStatus)
             THEN 1 ELSE 0
        b == IF Len(mon.extraGroups) > 0 THEN 1 ELSE 0
    IN /\ Len(lines) = a + b + 1
       /\ a = 1 => lines[1][1] \in {Lit("ICON_TEMP "), Lit("ICON_BAT ")}
       /\ b = 1 => lines[a + 1][1].t = "Extra: %d groups"
       /\ lines[a + b + 1][1].t = "Updated: %s"

\* C4 on the batteries the two renderers agree about: the same statement with
\* the first line present iff there is a record, or capacity > 0, or a status.
C4_CompactLinesAsCoded ==
  CompactMode =>
    LET lines == Split(screen)
        bat == mon.batteryStatus
        a == IF Len(mon.temperatureSensors) > 0 \/ bat.Capacity > 0 \/ bat.Status # ""
             THEN 1 ELSE 0
        b == IF Len(mon.extraGroups) > 0 THEN 1 ELSE 0
    IN /\ Len(lines) = a + b + 1
       /\ a = 1 => lines[1][1] \in {Lit("ICON_TEMP "), Lit("ICON_BAT ")}
       /\ b = 1 => lines[a + 1][1].t = "Extra: %d groups"
       /\ lines[a + b + 1][1].t = "Updated: %s"

\* C5: whenever the compact view is shown and there is a temperature record,
\* the first line shows one reading per record, in order, each with that
\* record's value and the colour of that record's own value and thresholds.
C5_AllTemperaturesShown ==
  (CompactMode /\ Len(mon.temperatureSensors) > 0) =>
    LET temps == mon.temperatureSensors
        shown == Written(Split(screen)[1], "%.1f C")
    IN /\ Len(shown) = Len(temps)
       /\ \A i \in 1..Len(temps) :
            /\ shown[i].n = temps[i].Value
            /\ shown[i].c = ClaimedTemperatureColor(temps[i])

\* C5 on each version: the two-column one shows every record as C5 says, the
\* single-column one shows one reading whatever the number of records.
C5_AllTemperaturesShownAsCoded ==
  (CompactMode /\ Len(mon.temperatureSensors) > 0) =>
    LET temps == mon.temperatureSensors
        shown == Written(Split(screen)[1], "%.1f C")
    IN IF variant = "two_column"
       THEN /\ Len(shown) = Len(temps)
            /\ \A i \in 1..Len(temps) :
                 /\ shown[i].n = temps[i].Value
                 /\ shown[i].c = ClaimedTemperatureColor(temps[i])
       ELSE Len(shown) = 1

\* The colours the renderers gave the temperature records, in order: the full
\* view in both versions, the compact view in the two-column version.
ShownTemperatures ==
  IF FullMode THEN Written(screen, "%6.1f C")
  ELSE IF CompactMode /\ variant = "two_column" THEN Written(screen, "%.1f C")
  ELSE <<>>

\* C6 as stated: a value equal to the high threshold is warning/orange, a
\* value equal to the critical threshold is critical/red, a value below both
\* is normal/green, in the adapter and in both renderers.
C6_AsStated ==
  /\ \A i \in 1..Len(ShownTemperatures) :
       LET r == mon.temperatureSensors[i]
           c == ShownTemperatures[i].c
       IN /\ r.Value = r.High => c = Orange
          /\ r.Value = r.Critical => c = Red
          /\ (r.Value < r.High /\ r.Value < r.Critical) => c = Green
  /\ \A g \in 1..Len(mon.extraGroups) : \A i \in 1..Len(mon.extraGroups[g].Sensors) :
       LET sensor == mon.extraGroups[g].Sensors[i]
       IN sensor.kind = "temperature" =>
            /\ sensor.temp.Value = sensor.temp.High => Warning(sensor)
            /\ sensor.temp.Value = sensor.temp.Critical => Critical(sensor)
            /\ (sensor.temp.Value < sensor.temp.High
                /\ sensor.temp.Value < sensor.temp.Critical)
               => ~Warning(sensor) /\ ~Critical(sensor)

\* C6 amended: the comparisons are inclusive and critical is tested first: a
\* value at or above the critical threshold is red, a value at or above the
\* high threshold and below the critical one is orange, a value below both is
\* green; the adapter reports warning iff value >= high and critical iff
\* value >= critical.
C6_InclusiveThresholds ==
  /\ Len(ShownTemperatures) \in {0, Len(mon.temperatureSensors)}
  /\ \A i \in 1..Len(ShownTemperatures) :
       LET r == mon.temperatureSensors[i]
           c == ShownTemperatures[i].c
       IN /\ r.Value >= r.Critical => c = Red
          /\ (r.Value >= r.High /\ r.Value < r.Critical) => c = Orange
          /\ (r.Value < r.High /\ r.Value < r.Critical) => c = Green
  /\ \A g \in 1..Len(mon.extraGroups) : \A i \in 1..Len(mon.extraGroups[g].Sensors) :
       LET sensor == mon.extraGroups[g].Sensors[i]
       IN sensor.kind = "temperature" =>
            /\ Warning(sensor) <=> sensor.temp.Value >= sensor.temp.High
            /\ Critical(sensor) <=> sensor.temp.Value >= sensor.temp.Critical

\* C6 witness: a full view whose first record sits exactly on its high
\* threshold, below critical, and is orange, and whose second sits exactly on
\* its critical threshold and is red, with the adapters agreeing.
C6_Witness ==
  /\ FullMode
  /\ Len(mon.temperatureSensors) = 2
  /\ Len(mon.extraGroups) > 0
  /\ mon.extraGroups[1].Name = "Temperatures"
  /\ LET r1 == mon.temperatureSensors[1]
         r2 == mon.temperatureSensors[2]
         a1 == mon.extraGroups[1].Sensors[1]
         a2 == mon.extraGroups[1].Sensors[2]
     IN /\ r1.Value = r1.High /\ r1.Value < r1.Critical
        /\ r2.Value = r2.Critical /\ r2.High < r2.Critical
        /\ ShownTemperatures[1].c = Orange
        /\ ShownTemperatures[2].c = Red
        /\ a1.temp = r1 /\ Warning(a1) /\ ~Critical(a1)
        /\ a2.temp = r2 /\ Critical(a2)

\* C7: for every battery record that is not the absent sentinel, both
\* renderers colour the capacity green iff capacity >= 50, orange iff
\* 20 <= capacity <= 49 and red iff capacity < 20, so they agree.
C7_CapacityColors ==
  ~IsSentinel(mon.batteryStatus) =>
    /\ FullMode =>
         /\ Contains(screen, Lit("  Capacity: "))
         /\ After(screen, Lit("  Capacity: ")).c
              = ClaimedCapacityColor(mon.batteryStatus.Capacity)
    /\ CompactMode =>
         /\ Contains(screen, Lit("ICON_BAT "))
         /\ After(screen, Lit("ICON_BAT ")).c
              = ClaimedCapacityColor(mon.batteryStatus.Capacity)

\* C7 wherever the capacity is on the screen.
C7_CapacityColorsWhereShown ==
  /\ (FullMode /\ Contains(screen, Lit("  Capacity: "))) =>
       After(screen, Lit("  Capacity: ")).c
         = ClaimedCapacityColor(mon.batteryStatus.Capacity)
  /\ (CompactMode /\ Contains(screen, Lit("ICON_BAT "))) =>
       After(screen, Lit("ICON_BAT ")).c
         = ClaimedCapacityColor(mon.batteryStatus.Capacity)

\* C8: capacity 0 with an empty status is absent in every renderer ("No
\* battery information" and no capacity line in the full view, no battery part
\* in the compact view); capacity > 0 or a non-empty status is a present
\* battery in every renderer.
C8_AbsentBattery ==
  LET bat == mon.batteryStatus
  IN /\ (FullMode /\ IsSentinel(bat)) =>
          /\ Contains(screen, Lit("  No battery information"))
          /\ ~Contains(screen, Lit("  Capacity: "))
     /\ (CompactMode /\ IsSentinel(bat)) => ~Contains(screen, Lit("ICON_BAT "))
     /\ (FullMode /\ (bat.Capacity > 0 \/ bat.Status # "")) =>
          /\ ~Contains(screen, Lit("  No battery information"))
          /\ Contains(screen, Lit("  Capacity: "))
          /\ After(screen, Lit("  Capacity: ")).n = bat.Capacity
          /\ After(screen, Lit("  Status: ")).s = bat.Status
     /\ (CompactMode /\ (bat.Capacity > 0 \/ bat.Status # "")) =>
          /\ Contains(screen, Lit("ICON_BAT "))
          /\ After(screen, Lit("ICON_BAT ")).n = bat.Capacity

\* C8 witness: capacity 0 with a status, shown as a battery by the compact view.
C8_Witness ==
  /\ CompactMode
  /\ mon.batteryStatus.Capacity = 0
  /\ mon.batteryStatus.Status # ""
  /\ Contains(screen, Lit("ICON_BAT "))
  /\ After(screen, Lit("ICON_BAT ")).n = 0

\* Every sensor position of every group, in group and sensor order.
AllPositions(groups) ==
  Flatten([g \in 1..Len(groups) |->
            [i \in 1..Len(groups[g].Sensors) |-> <<g, i>>]])

\* C9: once a tick has been handled, the cycle has called Refresh on every
\* sensor of every group in order, whatever the calls returned, the stored
\* records are the ones the sources returned, the timestamp is the time of
\* the tick and a tick is outstanding.
C9_RefreshCycle ==
  now > 0 =>
    /\ refreshed = AllPositions(mon.extraGroups)
    /\ mon.temperatureSensors = srcTemps
    /\ mon.batteryStatus = srcBattery
    /\ mon.lastUpdate = now
    /\ timers >= 1

\* C9 witness: after two ticks the first of two sensors still holds its
\* initial value, so each of its Refresh calls failed, while the sensor after
\* it was refreshed and holds the callback's value.
C9_Witness ==
  /\ now = 2 * TickInterval
  /\ Len(refreshed) = 2
  /\ LET first == mon.extraGroups[refreshed[1][1]].Sensors[refreshed[1][2]]
         last == mon.extraGroups[refreshed[2][1]].Sensors[refreshed[2][2]]
     IN /\ first.value = "" /\ ~first.warning /\ ~first.critical
        /\ last.value = "HOT" /\ last.warning /\ last.critical
  /\ mon.lastUpdate = now
  /\ timers = 1

\* C10: at every point the stored temperature list and battery record are the
\* snapshots the sources returned at the most recent tick (the empty list and
\* the absent sentinel before the first tick).
C10_LatestSnapshot ==
  /\ mon.temperatureSensors = srcTemps
  /\ mon.batteryStatus = srcBattery

\* C10 witness: a tick at which the temperature source returned nothing after
\* a tick that stored two records, and the battery source returned a battery.
C10_Witness ==
  /\ now > 0
  /\ prevCount = 2
  /\ srcTemps = <<>>
  /\ mon.temperatureSensors = <<>>
  /\ ~IsSentinel(srcBattery)
  /\ mon.batteryStatus = srcBattery

\* C11: Init schedules one tick, a handled tick schedules one further tick and
\* no other event schedules any: no tick is outstanding before the program
\* starts and exactly one is outstanding in every state after Init, whatever
\* resizes and keypresses come between the ticks.
C11_OneTickOutstanding ==
  /\ phase = "setup" => timers = 0
  /\ phase # "setup" => timers = 1

\* C11 witness: two ticks have been handled, a resize has come as well, and one
\* tick is outstanding.
C11_Witness ==
  /\ phase = "running"
  /\ now = 2 * TickInterval
  /\ mon.width # 0
  /\ mon.lastUpdate = now
  /\ timers = 1

\* C12: a call of GenericSensor.Refresh whose callback fails leaves the cached
\* value, warning flag and critical flag as they were and returns the error; a
\* call whose callback succeeds replaces all three by the callback's results
\* and returns no error.  The name is never changed.
C12_RefreshKeepsOrReplaces ==
  (ret.op = "Refresh" /\ ret.done /\ ret.before.kind = "generic"
   /\ ret.before.hasFn) =>
    /\ theSensor.name = ret.before.name
    /\ IF ret.result.err
       THEN /\ theSensor.value = ret.before.value
            /\ theSensor.warning = ret.before.warning
            /\ theSensor.critical = ret.before.critical
            /\ ret.err
       ELSE /\ theSensor.value = ret.result.value
            /\ theSensor.warning = ret.result.warning
            /\ theSensor.critical = ret.result.critical
            /\ ~ret.err

\* C12 witness: a sensor that a successful refresh had set to "HOT", warning
\* and critical, after a refresh whose callback failed handing back other
\* values beside the error: the cached triple is still the old one.
C12_Witness ==
  /\ ret.op = "Refresh" /\ ret.done
  /\ ret.before.kind = "generic" /\ ret.before.hasFn
  /\ ret.result.err /\ ret.err
  /\ ret.result.value = "BAD"
  /\ ret.before.value = "HOT"
  /\ theSensor.value = "HOT" /\ theSensor.warning /\ theSensor.critical

\* Every sensor of every extra group of the monitor.
ExtraSensors ==
  LET ps == AllPositions(mon.extraGroups)
  IN {mon.extraGroups[ps[k][1]].Sensors[ps[k][2]] : k \in 1..Len(ps)}

\* The number of sensors of the extra groups that satisfy P.
CountSensors(P(_)) ==
  LET ps == AllPositions(mon.extraGroups)
  IN Cardinality({k \in 1..Len(ps) :
                    P(mon.extraGroups[ps[k][1]].Sensors[ps[k][2]])})

\* The "Extra:" line of the compact output (the line that starts with it).
ExtraLine ==
  LET lines == Split(screen)
  IN lines[CHOOSE k \in 1..Len(lines) : lines[k][1].t = "Extra: %d groups"]

HasExtraLine ==
  \E k \in 1..Len(Split(screen)) : Split(screen)[k][1].t = "Extra: %d groups"

\* The colour C13 gives the "Extra:" line.
ClaimedExtraColor ==
  IF \E x \in ExtraSensors : Critical(x) THEN Red
  ELSE IF \E x \in ExtraSensors : Warning(x) THEN Orange
  ELSE Green

\* C13: with a group registered the compact output has the "Extra:" line; its
\* group count is the number of registered groups, empty ones included, its
\* sensor count the number of sensors over all groups, and the line is red if
\* a sensor of any group is critical, else orange if one is warning, else
\* green.
C13_ExtraLine ==
  (CompactMode /\ Len(mon.extraGroups) > 0) =>
    /\ HasExtraLine
    /\ ExtraLine[1].n = Len(mon.extraGroups)
    /\ ExtraLine[2].t = ", %d sensors"
    /\ ExtraLine[2].n = Len(AllPositions(mon.extraGroups))
    /\ \A k \in 1..Len(ExtraLine) : ExtraLine[k].c = ClaimedExtraColor

\* C13 on each version: both print the two counts; the two-column version
\* colours the line as C13 says, the single-column version prints it with no
\* colour at all.
C13_ExtraLineAsCoded ==
  (CompactMode /\ Len(mon.extraGroups) > 0) =>
    /\ HasExtraLine
    /\ ExtraLine[1].n = Len(mon.extraGroups)
    /\ ExtraLine[2].t = ", %d sensors"
    /\ ExtraLine[2].n = Len(AllPositions(mon.extraGroups))
    /\ \A k \in 1..Len(ExtraLine) :
         ExtraLine[k].c = IF variant = "two_column" THEN ClaimedExtraColor ELSE ""

IsCritical(x) == Critical(x)
IsWarningOnly(x) == Warning(x) /\ ~Critical(x)

\* C14: the "Extra:" line ends with "(W warning, C critical)" iff some sensor
\* of some group is warning or critical; C is the number of sensors with
\* Critical(), W the number with Warning() and without Critical(), so that a
\* sensor with both counts once, as critical, and W + C is at most the sensor
\* total.
C14_WarningCriticalCounts ==
  (CompactMode /\ Len(mon.extraGroups) > 0) =>
    /\ HasExtraLine
    /\ ContainsText(ExtraLine, " (%d warning")
         <=> \E x \in ExtraSensors : Warning(x) \/ Critical(x)
    /\ ContainsText(ExtraLine, " (%d warning") =>
         /\ Len(ExtraLine) = 4
         /\ ExtraLine[3].t = " (%d warning"
         /\ ExtraLine[3].n = CountSensors(IsWarningOnly)
         /\ ExtraLine[4].t = ", %d critical)"
         /\ ExtraLine[4].n = CountSensors(IsCritical)
         /\ ExtraLine[3].n + ExtraLine[4].n <= ExtraLine[2].n
    /\ ~ContainsText(ExtraLine, " (%d warning") => Len(ExtraLine) = 2

\* C14 on each version: the two-column one appends the counts as C14 says, the
\* single-column one never appends them.
C14_WarningCriticalCountsAsCoded ==
  (CompactMode /\ Len(mon.extraGroups) > 0) =>
    /\ HasExtraLine
    /\ IF variant = "two_column"
       THEN /\ ContainsText(ExtraLine, " (%d warning")
                 <=> \E x \in ExtraSensors : Warning(x) \/ Critical(x)
            /\ ContainsText(ExtraLine, " (%d warning") =>
                 /\ Len(ExtraLine) = 4
                 /\ ExtraLine[3].t = " (%d warning"
                 /\ ExtraLine[3].n = CountSensors(IsWarningOnly)
                 /\ ExtraLine[4].t = ", %d critical)"
                 /\ ExtraLine[4].n = CountSensors(IsCritical)
                 /\ ExtraLine[3].n + ExtraLine[4].n <= ExtraLine[2].n
            /\ ~ContainsText(ExtraLine, " (%d warning") => Len(ExtraLine) = 2
       ELSE Len(ExtraLine) = 2

\* C15: Monitor.Update on a message that is neither a resize nor a tick
\* returns the monitor unchanged in every field, schedules nothing, reads no
\* source and refreshes no sensor; the host answers "q" and "ctrl+c" with the
\* quit command and leaves the monitor as it was, and hands every other
\* message to Monitor.Update, keeping the monitor and the command it returns.
C15_OtherEventsIgnored ==
  (ret.op = "Update" /\ ret.done) =>
    /\ ret.msg.type \notin {"WindowSizeMsg", "tickMsg"} =>
         /\ ret.core.m = ret.before
         /\ ret.core.cmd = "nil"
         /\ ~ret.core.read
         /\ ret.core.log = <<>>
    /\ IF ret.msg.type = "KeyMsg" /\ ret.msg.key \in {"q", "ctrl+c"}
       THEN ret.cmd = "quit" /\ mon = ret.before /\ phase = "quit"
       ELSE ret.cmd = ret.core.cmd /\ mon = ret.core.m
    /\ ret.msg.type # "tickMsg" => timers = 1

\* C15 witness: after a tick stored records and a resize set the viewport, the
\* key "x" went through to Monitor.Update, which changed nothing.
C15_Witness ==
  /\ ret.op = "Update" /\ ret.done
  /\ ret.msg = KeyMsg("x")
  /\ ret.cmd = "nil"
  /\ mon = ret.before
  /\ mon.lastUpdate > 0
  /\ Len(mon.temperatureSensors) > 0
  /\ mon.width # 0
  /\ timers = 1

\* C16: View changes no field of the monitor, and a call repeated with no
\* event in between returns the text of the first call however much time has
\* passed: the footer shows the stored time of the last refresh.
C16_ViewReadOnly ==
  (ret.op = "View" /\ ret.done) =>
    /\ mon = ret.before
    /\ screen = ret.first
    /\ (mon.width # 0 /\ mon.height # 0) =>
         /\ screen[Len(screen)].t \in {"Updated: %s",
                                       "Last updated: %s | Press 'q' to quit"}
         /\ screen[Len(screen)].n = Format(mon.lastUpdate)

\* C16 witness: the third call in a row of the full view, later than the last
\* refresh, returns the text of the first call.
C16_Witness ==
  /\ ret.op = "View" /\ ret.done
  /\ ret.calls = 3
  /\ now > mon.lastUpdate
  /\ FullMode
  /\ Len(mon.temperatureSensors) > 0
  /\ screen = ret.first
  /\ mon = ret.before

\* The battery directory ReadBatteryStatus reads on the file system.
DetectedBattery == sysfs.power_supply[batteryPath(sysfs.power_supply)]

BatteryDetected == batteryPath(sysfs.power_supply) # 0

\* C17: for a detected battery the power of the record ReadBatteryStatus
\* returned is the reported power whenever power_now reports one, and is
\* voltage x current whenever none is reported and voltage_now and current_now
\* both report a value.
C17_DerivedPower ==
  (ret.op = "Read" /\ ret.done /\ BatteryDetected) =>
    LET d == DetectedBattery
    IN /\ Parses(d.power_now) => srcBattery.Power * Micro = d.power_now.n
       /\ (~Parses(d.power_now) /\ Parses(d.voltage_now) /\ Parses(d.current_now)) =>
            srcBattery.Power
              = (d.voltage_now.n \div Micro) * (d.current_now.n \div Micro)

\* C17 with "reported" read the way the code reads it: a power other than 0.
\* The power is the reported one when that is not 0, voltage x current when it
\* is 0 or missing and the voltage is positive and the current not 0, and 0
\* otherwise.
C17_DerivedPowerAsCoded ==
  (ret.op = "Read" /\ ret.done /\ BatteryDetected) =>
    LET d == DetectedBattery
        reported == Parses(d.power_now) /\ d.power_now.n # 0
        v == IF Parses(d.voltage_now) THEN d.voltage_now.n \div Micro ELSE 0
        c == IF Parses(d.current_now) THEN d.current_now.n \div Micro ELSE 0
    IN srcBattery.Power =
         IF reported THEN d.power_now.n \div Micro
         ELSE IF v > 0 /\ c # 0 THEN v * c ELSE 0

\* The threshold files behind every record ReadTemperatures returns, in the
\* order of the records: the readable thermal zones, then the readable inputs
\* of the hwmon directories that have a name.
ThresholdSources ==
  IF ~sysfs.thermalExists THEN <<>>
  ELSE Flatten([i \in 1..Len(sysfs.thermal) |->
                 IF Parses(sysfs.thermal[i].temp)
                 THEN <<[kind |-> "thermal",
                         high |-> sysfs.thermal[i].trip_point_0_temp,
                         critical |-> sysfs.thermal[i].trip_point_1_temp]>>
                 ELSE <<>>])
       \o
       Flatten([i \in 1..Len(sysfs.hwmon) |->
                 IF ~sysfs.hwmon[i].name.exists THEN <<>>
                 ELSE Flatten([j \in 1..Len(sysfs.hwmon[i].inputs) |->
                        IF Parses(sysfs.hwmon[i].inputs[j].input)
                        THEN <<[kind |-> "hwmon",
                                high |-> sysfs.hwmon[i].inputs[j].max,
                                critical |-> sysfs.hwmon[i].inputs[j].crit]>>
                        ELSE <<>>])])

\* A threshold file reports a usable threshold: a number that is not negative.
Usable(f) == Parses(f) /\ f.n >= 0

\* C18: every record the temperature source returns has high threshold 80 when
\* its high threshold file is missing, unparsable or negative and critical
\* threshold 100 when its critical threshold file is, and carries the reported
\* threshold whenever the file reports a non-negative one, 0 included; thermal
\* zones and hwmon inputs alike.
C18_ThresholdDefaults ==
  (ret.op = "Read" /\ ret.done) =>
    /\ Len(srcTemps) = Len(ThresholdSources)
    /\ \A k \in 1..Len(srcTemps) :
         LET src == ThresholdSources[k]
         IN /\ srcTemps[k].High * Milli =
                 IF Usable(src.high) THEN src.high.n ELSE 80 * Milli
            /\ srcTemps[k].Critical * Milli =
                 IF Usable(src.critical) THEN src.critical.n ELSE 100 * Milli

\* C18 as the code has it: a hwmon record carries every reported non-negative
\* threshold, a thermal-zone record every reported positive one; a thermal
\* zone that reports 0 gets the default.
C18_ThresholdDefaultsAsCoded ==
  (ret.op = "Read" /\ ret.done) =>
    /\ Len(srcTemps) = Len(ThresholdSources)
    /\ \A k \in 1..Len(srcTemps) :
         LET src == ThresholdSources[k]
             carried(f) == Usable(f) /\ (src.kind = "thermal" => f.n # 0)
         IN /\ srcTemps[k].High * Milli =
                 IF carried(src.high) THEN src.high.n ELSE 80 * Milli
            /\ srcTemps[k].Critical * Milli =
                 IF carried(src.critical) THEN src.critical.n ELSE 100 * Milli

\* The number of segments of text written with the verb t.
Times(text, t) == Len(Written(text, t))

\* The optional lines of the battery section: verb, and the field it prints.
OptionalNumbers(bat) ==
  {<<"  Voltage: %.2fV", bat.Voltage>>, <<"  Current: %.2fA", bat.Current>>,
   <<"  Power: %.2fW", bat.Power>>, <<"  Temperature: %.1f C", bat.Temperature>>,
   <<"  Energy: %.2f Wh", bat.Energy>>}

OptionalStrings(bat) ==
  {<<"  Health: %s", bat.Health>>, <<"  Capacity Level: %s", bat.CapacityLevel>>}

\* C19: for a battery other than the absent sentinel the full view prints the
\* Capacity and Status lines, and each of Voltage, Current, Power, Health,
\* Temperature, Energy and Capacity Level exactly when that field is set: a
\* number other than 0, negative ones included, or a non-empty string, each
\* field on its own.
C19_OptionalFields ==
  (FullMode /\ ~IsSentinel(mon.batteryStatus)) =>
    LET bat == mon.batteryStatus
    IN /\ Times(screen, "  Capacity: ") = 1
       /\ Times(screen, "  Status: ") = 1
       /\ \A f \in OptionalNumbers(bat) :
            /\ Times(screen, f[1]) = (IF f[2] # 0 THEN 1 ELSE 0)
            /\ f[2] # 0 => Written(screen, f[1])[1].n = f[2]
       /\ \A f \in OptionalStrings(bat) :
            /\ Times(screen, f[1]) = (IF f[2] # "" THEN 1 ELSE 0)
            /\ f[2] # "" => Written(screen, f[1])[1].s = f[2]

\* C19 as the code has it: Current is printed when it is not 0, while Voltage,
\* Power, Temperature and Energy are printed only when they are above 0.
C19_OptionalFieldsAsCoded ==
  (FullMode /\ ~IsSentinel(mon.batteryStatus)) =>
    LET bat == mon.batteryStatus
        set(f) == IF f[1] = "  Current: %.2fA" THEN f[2] # 0 ELSE f[2] > 0
    IN /\ Times(screen, "  Capacity: ") = 1
       /\ Times(screen, "  Status: ") = 1
       /\ \A f \in OptionalNumbers(bat) :
            /\ Times(screen, f[1]) = (IF set(f) THEN 1 ELSE 0)
            /\ set(f) => Written(screen, f[1])[1].n = f[2]
       /\ \A f \in OptionalStrings(bat) :
            /\ Times(screen, f[1]) = (IF f[2] # "" THEN 1 ELSE 0)
            /\ f[2] # "" => Written(screen, f[1])[1].s = f[2]

\* The lines of the screen that hold a segment with one of the verbs ts.
LinesWith(ts) ==
  {k \in 1..Len(Split(screen)) :
     \E i \in 1..Len(Split(screen)[k]) : Split(screen)[k][i].t \in ts}

\* What the Temperatures section writes, and what the Battery section writes.
TemperatureVerbs == {"Temperatures", "%6.1f C", "  No temperature sensors found"}
BatteryVerbs ==
  {"Battery", "  Capacity: ", "  Status: ", "  No battery information",
   "  Voltage: %.2fV", "  Current: %.2fA", "  Power: %.2fW", "  Health: %s",
   "  Temperature: %.1f C", "  Energy: %.2f Wh", "  Capacity Level: %s"}

\* The two sections are one below the other: every line of the Battery
\* section is below every line of the Temperatures section.
Stacked ==
  \A t \in LinesWith(TemperatureVerbs), b \in LinesWith(BatteryVerbs) : t < b

\* Every temperature line and every battery line is on the screen once, the
\* temperature lines in the order of the records.
EveryLineOnce ==
  LET temps == mon.temperatureSensors
      bat == mon.batteryStatus
      shown == Written(screen, "%6.1f C")
  IN /\ Times(screen, "Temperatures") = 1
     /\ Times(screen, "Battery") = 1
     /\ Len(shown) = Len(temps)
     /\ \A i \in 1..Len(temps) : shown[i].n = temps[i].Value
     /\ Times(screen, "  No temperature sensors found")
          = (IF Len(temps) = 0 THEN 1 ELSE 0)
     /\ Times(screen, "  No battery information") = (IF IsSentinel(bat) THEN 1 ELSE 0)
     /\ Times(screen, "  Capacity: ") = (IF IsSentinel(bat) THEN 0 ELSE 1)
     /\ Times(screen, "  Status: ") = (IF IsSentinel(bat) THEN 0 ELSE 1)
     /\ \A v \in BatteryVerbs : Times(screen, v) <= 1

\* C20: in the full view the Temperatures and Battery sections are stacked
\* whenever the width is below 80 columns, and in either layout every
\* temperature line and every battery line is on the screen exactly once.
C20_StackedWhenNarrow ==
  FullMode =>
    /\ mon.width < 80 => Stacked
    /\ EveryLineOnce

\* C20 without the layout: whatever the width, the single-column version
\* stacks the two sections, the two-column version puts them side by side, and
\* neither loses or repeats a line.
C20_NoLineLostOrDuplicated ==
  FullMode =>
    /\ EveryLineOnce
    /\ variant = "single_column" => Stacked
    /\ variant = "two_column" => ~Stacked

\* The places of text, in order, whose segment satisfies P.
Indices(text, P(_)) ==
  SelectSeq([i \in 1..Len(text) |-> i], LAMBDA i : P(text[i]))

IsGroupHeader(x) == x.t = "%s" /\ x.c = "bold"
IsSensorName(x) == x.t = "%-20s"

\* C21: the full view has one section per registered extra group, in
\* registration order, headed by the group's name; a group with sensors lists
\* each of them once, in order, by name, with its value red if Critical(),
\* else orange if Warning(), else green; a group without sensors has its
\* section too, with the "No sensors" notice.
C21_ExtraSections ==
  FullMode =>
    LET groups == mon.extraGroups
        ps == AllPositions(groups)
        hs == Indices(screen, IsGroupHeader)
        ns == Indices(screen, IsSensorName)
    IN /\ Len(hs) = Len(groups)
       /\ Len(ns) = Len(ps)
       /\ \A g \in 1..Len(groups) :
            /\ screen[hs[g]].s = groups[g].Name
            /\ g > 1 => hs[g - 1] < hs[g]
            /\ Len(groups[g].Sensors) = 0 =>
                 /\ screen[hs[g] + 2] = Lit("  No sensors")
                 /\ \A k \in 1..Len(ns) :
                      (g < Len(groups) /\ ns[k] > hs[g]) => ns[k] > hs[g + 1]
       /\ Times(screen, "  No sensors")
            = Cardinality({g \in 1..Len(groups) : Len(groups[g].Sensors) = 0})
       /\ \A k \in 1..Len(ps) :
            LET g == ps[k][1]
                x == groups[g].Sensors[ps[k][2]]
                shown == screen[ns[k] + 2]
            IN /\ hs[g] < ns[k]
               /\ g < Len(groups) => ns[k] < hs[g + 1]
               /\ screen[ns[k]].s = Name(x)
               /\ shown.t = Value(x).t /\ shown.n = Value(x).n
               /\ shown.s = Value(x).s
               /\ shown.c = IF Critical(x) THEN Red
                            ELSE IF Warning(x) THEN Orange ELSE Green

\* C21 witness: a group without sensors followed by a group with a sensor
\* that is both warning and critical: two sections, the first with the
\* notice, the second with the sensor's value in red.
C21_Witness ==
  /\ FullMode
  /\ Len(mon.extraGroups) = 2
  /\ Len(mon.extraGroups[1].Sensors) = 0
  /\ Len(mon.extraGroups[2].Sensors) = 1
  /\ Warning(mon.extraGroups[2].Sensors[1])
  /\ Critical(mon.extraGroups[2].Sensors[1])
  /\ Len(Indices(screen, IsGroupHeader)) = 2
  /\ Times(screen, "  No sensors") = 1
  /\ After(screen, Lit("  No sensors")) = NL
  /\ LET n == Indices(screen, IsSensorName)[1]
     IN /\ n > Indices(screen, IsGroupHeader)[2]
        /\ screen[n + 2] = Seg("%s", 0, "BOTH", Red)

\* C22: a resize sets width and height to the event's values and nothing
\* else: the temperature list, the battery record, the extra groups with
\* their sensors' cached values and the time of the last refresh are as
\* before, no source is read, no sensor refreshed and no tick scheduled.
C22_ResizeFrame ==
  (ret.op = "Update" /\ ret.done /\ ret.msg.type = "WindowSizeMsg") =>
    /\ mon.width = ret.msg.Width
    /\ mon.height = ret.msg.Height
    /\ mon.temperatureSensors = ret.before.temperatureSensors
    /\ mon.batteryStatus = ret.before.batteryStatus
    /\ mon.extraGroups = ret.before.extraGroups
    /\ mon.lastUpdate = ret.before.lastUpdate
    /\ ~ret.core.read
    /\ ret.core.log = <<>>
    /\ ret.cmd = "nil"
    /\ timers = 1

\* C22 witness: a resize to another viewport after a tick that stored records
\* and refreshed a sensor: the dimensions are the new ones, the rest is kept.
C22_Witness ==
  /\ ret.op = "Update" /\ ret.done
  /\ ret.msg.type = "WindowSizeMsg"
  /\ <<ret.before.width, ret.before.height>> # <<ret.msg.Width, ret.msg.Height>>
  /\ ret.before.width # 0
  /\ mon.width = ret.msg.Width /\ mon.height = ret.msg.Height
  /\ mon.lastUpdate > 0
  /\ Len(mon.temperatureSensors) > 0
  /\ ~IsSentinel(mon.batteryStatus)
  /\ Len(mon.extraGroups) > 0
  /\ mon.extraGroups[1].Sensors[1].value = "HOT"
  /\ mon.extraGroups = ret.before.extraGroups

\* The highest value among the records of a non-empty list.
MaxValue(temps) ==
  CHOOSE v \in {temps[i].Value : i \in 1..Len(temps)} :
    \A i \in 1..Len(temps) : temps[i].Value <= v

\* C23: in the single-column version the one temperature of the compact view
\* is, for every non-empty list, the maximum of the records' values, coloured
\* by the thresholds of a record that holds that maximum, also when every
\* value is zero or negative.
C23_HighestTemperature ==
  (variant = "single_column" /\ CompactMode /\ Len(mon.temperatureSensors) > 0) =>
    LET temps == mon.temperatureSensors
        shown == Written(Split(screen)[1], "%.1f C")
    IN /\ Len(shown) = 1
       /\ shown[1].n = MaxValue(temps)
       /\ \E i \in 1..Len(temps) :
            /\ temps[i].Value = MaxValue(temps)
            /\ shown[1].c = ClaimedTemperatureColor(temps[i])

\* C23 as the code has it: the search starts from the zero record, so the
\* claim holds when some value is above 0 (the first record with the maximum
\* gives the colour), and with no value above 0 the view shows 0.0 in red.
C23_HighestTemperatureAsCoded ==
  (variant = "single_column" /\ CompactMode /\ Len(mon.temperatureSensors) > 0) =>
    LET temps == mon.temperatureSensors
        shown == Written(Split(screen)[1], "%.1f C")
    IN /\ Len(shown) = 1
       /\ IF MaxValue(temps) > 0
          THEN LET i == CHOOSE k \in 1..Len(temps) :
                          /\ temps[k].Value = MaxValue(temps)
                          /\ \A j \in 1..(k - 1) : temps[j].Value < MaxValue(temps)
               IN /\ shown[1].n = temps[i].Value
                  /\ shown[1].c = ClaimedTemperatureColor(temps[i])
          ELSE shown[1].n = 0 /\ shown[1].c = Red

====
